---------------------------- MODULE Spec2Model ----------------------------
(***************************************************************************)
(* A model of the Understat / Sofascore scrapers of VictorOrtins/Futebol:  *)
(* the batch orchestrators (Understat.py, Sofascore.py), the embedded-blob *)
(* extractor and the normalizers that turn decoded JSON into tables.       *)
(*                                                                         *)
(* One call of one operation is one behaviour: Init is the state at the    *)
(* entry of the call with its arguments chosen, the actions are the steps  *)
(* of the call.  Each operation has its own specification (SpecBatch,      *)
(* SpecExtract, SpecGames, ...).                                           *)
(*                                                                         *)
(* Python values: a str that the code inspects is a sequence of            *)
(* one-character strings; a dict is the sequence of its <<key, value>>     *)
(* items in insertion order; a list is a sequence; a DataFrame is a record *)
(* [columns, index, rows] with rows functions from column name to cell.    *)
(***************************************************************************)
EXTENDS Integers, Sequences, FiniteSets, TLC

VARIABLES
    fn,         \* the operation that is called
    pc,         \* position of the call: "ready", "loop", "returned", "raised"
    arg0,       \* the arguments as the caller passed them (never changes)
    arg,        \* the caller's argument object as it is now (in-place mutation shows here)
    ret,        \* the returned value, or the raised error
    failing,    \* environment: the identifiers whose single-entity fetch raises
    links,      \* orchestrator local: the sliced sequence that is iterated
    i,          \* orchestrator local: number of loop iterations begun
    results,    \* orchestrator local: the dict (or list) of successes
    stdout,     \* the diagnostics printed so far
    fetched     \* the identifiers handed to the single-entity fetch, in call order

vars == <<fn, pc, arg0, arg, ret, failing, links, i, results, stdout, fetched>>

None == [kind |-> "None"]

----------------------------------------------------------------------------
(* Sequences and dicts *)

Range(s) == {s[k] : k \in 1..Len(s)}

IsDistinct(s) == \A a, b \in 1..Len(s) : a # b => s[a] # s[b]

Min(a, b) == IF a < b THEN a ELSE b
Max(a, b) == IF a > b THEN a ELSE b

SeqsUpTo(S, n) == UNION {[1..k -> S] : k \in 0..n}

\* Python's s[lo:hi] for integers lo, hi (negative values count from the end).
PyIndexClamp(n, len) == IF n < 0 THEN Max(n + len, 0) ELSE Min(n, len)

PySlice(s, lo, hi) ==
    LET a == PyIndexClamp(lo, Len(s))
        b == PyIndexClamp(hi, Len(s))
    IN  IF a >= b THEN <<>> ELSE SubSeq(s, a + 1, b)

\* Python's s[lo:]
PySliceFrom(s, lo) == PySlice(s, lo, Len(s))

\* dict: the sequence of <<key, value>> items in insertion order
DictKeys(d) == [k \in 1..Len(d) |-> d[k][1]]
DictValues(d) == [k \in 1..Len(d) |-> d[k][2]]
DictHas(d, key) == \E k \in 1..Len(d) : d[k][1] = key
DictGet(d, key) == d[CHOOSE k \in 1..Len(d) : d[k][1] = key][2]

\* d[key] = value: an existing key keeps its place, a new one goes last
DictSet(d, key, value) ==
    IF DictHas(d, key)
    THEN [k \in 1..Len(d) |-> IF d[k][1] = key THEN <<key, value>> ELSE d[k]]
    ELSE Append(d, <<key, value>>)

----------------------------------------------------------------------------
(* Bounds of the model *)

MaxId == 3        \* identifiers are 1..MaxId
MaxLinks == 3     \* longest identifier sequence given to an orchestrator
MaxText == 6      \* longest raw text given to the extractor
MaxGames == 2     \* longest array of match records
MaxShots == 2     \* most shots of one side
MaxRoster == 2    \* most players of one side's roster
MaxPositions == 2 \* most positions of a player's positional stats
MaxTeams == 2     \* most teams of a league's teamsData
MaxHistory == 2   \* longest history list of one team
MaxMatchId == 120 \* integer identifiers are -MaxMatchId..MaxMatchId
MaxTail == 7      \* longest script text after the match_info anchor

----------------------------------------------------------------------------
(* Batch orchestrators                                                     *)
(*   Understat._scrape_matches, _scrape_teams, scrape_players_from_league  *)
(*   Sofascore._append_scraped_artifact                                    *)

Ids == 1..MaxId

\* What the single-entity fetch (scrape_match, scrape_team, scrape_player,
\* scrape_function) returns for an identifier when it does not raise.
Scraped(id) == [kind |-> "scraped", of |-> id]

\* The league's players table as scrape_league returns it: one row per player
\* id; two players may share a name.
NameOf(id) == IF id % 2 = 1 THEN "A" ELSE "B"
PlayersData(ids) == [k \in 1..Len(ids) |-> [id |-> ids[k], player_name |-> NameOf(ids[k])]]

\* The (id, home, away) tuples of Sofascore._get_matches_ids.
MatchesIds(ids) == [k \in 1..Len(ids) |-> <<ids[k], "home", "away">>]

\* if end == -1: links = links[init:]  else: links = links[init:end]
SliceLinks(l, init, end) ==
    IF end = -1 THEN PySliceFrom(l, init) ELSE PySlice(l, init, end)

\* try: store[link] = scrape(link)  except Exception as e: print(...)
\* The state [store, out] after one guarded iteration.
TryScrapeNoDiagnostic(store, out, what, link, bad) ==
    IF link \in bad
    THEN [store |-> store, out |-> out]
    ELSE [store |-> DictSet(store, link, Scraped(link)), out |-> out]

TryScrape(store, out, what, link, bad) ==
    IF link \in bad
    THEN [store |-> store, out |-> Append(out, [error |-> what, id |-> link])]
    ELSE [store |-> DictSet(store, link, Scraped(link)), out |-> out]

Orchestrators ==
    {"_scrape_matches", "_scrape_teams", "scrape_players_from_league",
     "_append_scraped_artifact"}

Sliced == {"_scrape_matches", "_scrape_teams", "scrape_players_from_league"}

InitBatch ==
    /\ fn \in Orchestrators
    /\ pc = "ready"
    /\ \E l \in SeqsUpTo(Ids, MaxLinks) :
         /\ failing \in SUBSET Range(l)
         /\ \E init \in 0..Len(l), end \in -1..Len(l) :
              /\ fn \notin Sliced => (init = 0 /\ end = -1)
              /\ arg0 = [links |-> l, init |-> init, end |-> end]
    /\ arg = arg0
    /\ ret = None
    /\ links = <<>>
    /\ i = 0
    /\ results = <<>>
    /\ stdout = <<>>
    /\ fetched = <<>>

\* _scrape_matches: matches = dict(); the slice
ScrapeMatchesBegin ==
    /\ fn = "_scrape_matches" /\ pc = "ready"
    /\ results' = <<>>
    /\ links' = SliceLinks(arg0.links, arg0.init, arg0.end)
    /\ i' = 0
    /\ pc' = "loop"
    /\ UNCHANGED <<fn, arg0, arg, ret, failing, stdout, fetched>>

\* _scrape_matches: one iteration of the for loop
ScrapeMatchesIter ==
    /\ fn = "_scrape_matches" /\ pc = "loop" /\ i < Len(links)
    /\ LET link == links[i + 1]
           s == TryScrape(results, stdout, "match", link, failing)
       IN  /\ fetched' = Append(fetched, link)
           /\ results' = s.store
           /\ stdout' = s.out
    /\ i' = i + 1
    /\ UNCHANGED <<fn, pc, arg0, arg, ret, failing, links>>

\* _scrape_matches: return matches
ScrapeMatchesReturn ==
    /\ fn = "_scrape_matches" /\ pc = "loop" /\ i = Len(links)
    /\ ret' = results
    /\ pc' = "returned"
    /\ UNCHANGED <<fn, arg0, arg, failing, links, i, results, stdout, fetched>>

\* _scrape_teams: teams = dict(); the slice
ScrapeTeamsBegin ==
    /\ fn = "_scrape_teams" /\ pc = "ready"
    /\ results' = <<>>
    /\ links' = SliceLinks(arg0.links, arg0.init, arg0.end)
    /\ i' = 0
    /\ pc' = "loop"
    /\ UNCHANGED <<fn, arg0, arg, ret, failing, stdout, fetched>>

\* _scrape_teams: one iteration of the for loop
ScrapeTeamsIter ==
    /\ fn = "_scrape_teams" /\ pc = "loop" /\ i < Len(links)
    /\ LET link == links[i + 1]
           s == TryScrape(results, stdout, "team", link, failing)
       IN  /\ fetched' = Append(fetched, link)
           /\ results' = s.store
           /\ stdout' = s.out
    /\ i' = i + 1
    /\ UNCHANGED <<fn, pc, arg0, arg, ret, failing, links>>

\* _scrape_teams: return teams
ScrapeTeamsReturn ==
    /\ fn = "_scrape_teams" /\ pc = "loop" /\ i = Len(links)
    /\ ret' = results
    /\ pc' = "returned"
    /\ UNCHANGED <<fn, arg0, arg, failing, links, i, results, stdout, fetched>>

\* scrape_players_from_league: the league's players table, players = dict(),
\* the slice of the table
ScrapePlayersBegin ==
    /\ fn = "scrape_players_from_league" /\ pc = "ready"
    /\ results' = <<>>
    /\ links' = SliceLinks(PlayersData(arg0.links), arg0.init, arg0.end)
    /\ i' = 0
    /\ pc' = "loop"
    /\ UNCHANGED <<fn, arg0, arg, ret, failing, stdout, fetched>>

\* players_data[players_data['id'] == player_id]['player_name'].values[0]
PlayerNameOf(players_data, player_id) ==
    players_data[CHOOSE k \in 1..Len(players_data) :
                    /\ players_data[k].id = player_id
                    /\ \A j \in 1..(k - 1) : players_data[j].id # player_id].player_name

\* scrape_players_from_league: one iteration; scrape_player is not guarded, so
\* its error leaves the loop and the call
ScrapePlayersIter ==
    /\ fn = "scrape_players_from_league" /\ pc = "loop" /\ i < Len(links)
    /\ LET player_id == links[i + 1].id
       IN  /\ fetched' = Append(fetched, player_id)
           /\ IF player_id \in failing
              THEN /\ pc' = "raised"
                   /\ ret' = [kind |-> "raise", error |-> "Exception", id |-> player_id]
                   /\ UNCHANGED results
              ELSE /\ results' = DictSet(results, PlayerNameOf(links, player_id),
                                         Scraped(player_id))
                   /\ UNCHANGED <<pc, ret>>
    /\ i' = i + 1
    /\ UNCHANGED <<fn, arg0, arg, failing, links, stdout>>

\* scrape_players_from_league: return players
ScrapePlayersReturn ==
    /\ fn = "scrape_players_from_league" /\ pc = "loop" /\ i = Len(links)
    /\ ret' = results
    /\ pc' = "returned"
    /\ UNCHANGED <<fn, arg0, arg, failing, links, i, results, stdout, fetched>>

\* _append_scraped_artifact: scrape_list = []
AppendScrapedBegin ==
    /\ fn = "_append_scraped_artifact" /\ pc = "ready"
    /\ results' = <<>>
    /\ links' = MatchesIds(arg0.links)
    /\ i' = 0
    /\ pc' = "loop"
    /\ UNCHANGED <<fn, arg0, arg, ret, failing, stdout, fetched>>

\* _append_scraped_artifact: one iteration; scrape_function is not guarded
AppendScrapedIter ==
    /\ fn = "_append_scraped_artifact" /\ pc = "loop" /\ i < Len(links)
    /\ LET match_id == links[i + 1]
       IN  /\ fetched' = Append(fetched, match_id[1])
           /\ IF match_id[1] \in failing
              THEN /\ pc' = "raised"
                   /\ ret' = [kind |-> "raise", error |-> "Exception", id |-> match_id[1]]
                   /\ UNCHANGED results
              ELSE /\ results' = Append(results,
                                        <<Scraped(match_id[1]), match_id[2], match_id[3] >>)
                   /\ UNCHANGED <<pc, ret>>
    /\ i' = i + 1
    /\ UNCHANGED <<fn, arg0, arg, failing, links, stdout>>

\* _append_scraped_artifact: return scrape_list
AppendScrapedReturn ==
    /\ fn = "_append_scraped_artifact" /\ pc = "loop" /\ i = Len(links)
    /\ ret' = results
    /\ pc' = "returned"
    /\ UNCHANGED <<fn, arg0, arg, failing, links, i, results, stdout, fetched>>

NextBatch ==
    \/ ScrapeMatchesBegin
    \/ ScrapeMatchesIter
    \/ ScrapeMatchesReturn
    \/ ScrapeTeamsBegin
    \/ ScrapeTeamsIter
    \/ ScrapeTeamsReturn
    \/ ScrapePlayersBegin
    \/ ScrapePlayersIter
    \/ ScrapePlayersReturn
    \/ AppendScrapedBegin
    \/ AppendScrapedIter
    \/ AppendScrapedReturn

SpecBatch == InitBatch /\ [][NextBatch]_vars

----------------------------------------------------------------------------
(* Claims about the batch orchestrators *)

Guarded == {"_scrape_matches", "_scrape_teams"}
Unguarded == {"scrape_players_from_league", "_append_scraped_artifact"}

\* The identifiers of L[init], ..., L[hi - 1], hi = len(L) when end = -1, in order.
SliceOf(l, init, end) ==
    LET hi == IF end = -1 THEN Len(l) ELSE end
    IN  [k \in 1..(hi - init) |-> l[init + k]]

Succeeded(l, bad) == LET Ok(x) == x \notin bad IN SelectSeq(l, Ok)
Failed(l, bad) == LET Ko(x) == x \in bad IN SelectSeq(l, Ko)

\* C1: _scrape_matches and _scrape_teams, given distinct identifiers, never
\* raise; the mapping they return has as keys exactly the identifiers of the
\* processed slice whose fetch succeeded, in processing order, each mapped to
\* that fetch's result; and exactly one diagnostic naming the identifier was
\* printed per failed identifier.
C1_PartialResults ==
    (fn \in Guarded /\ IsDistinct(arg0.links)) =>
        /\ pc # "raised"
        /\ pc = "returned" =>
             /\ links = SliceOf(arg0.links, arg0.init, arg0.end)
             /\ DictKeys(ret) = Succeeded(links, failing)
             /\ \A k \in 1..Len(ret) : ret[k][2] = Scraped(ret[k][1])
             /\ [k \in 1..Len(stdout) |-> stdout[k].id] = Failed(links, failing)
             /\ \A k \in 1..Len(stdout) :
                    stdout[k].error = (IF fn = "_scrape_matches" THEN "match" ELSE "team")

\* The batch scenario of the specification: three identifiers, the second fails.
C1_Witness ==
    /\ fn \in Guarded /\ pc = "returned"
    /\ Len(arg0.links) = 3 /\ IsDistinct(arg0.links)
    /\ arg0.init = 0 /\ arg0.end = -1
    /\ failing = {arg0.links[2]}
    /\ DictKeys(ret) = <<arg0.links[1], arg0.links[3] >>
    /\ Len(stdout) = 1

\* C2: in scrape_players_from_league and _append_scraped_artifact a failing
\* fetch is never fatal: the call does not raise, and it returns the results
\* of every identifier of the batch whose fetch succeeded.
C2_FailureNeverFatal ==
    fn \in Unguarded =>
        /\ pc # "raised"
        /\ pc = "returned" =>
             \A id \in Range(arg0.links) \ failing :
                 (id \in Range(SliceOf(arg0.links, arg0.init, arg0.end))
                    /\ IsDistinct([k \in 1..Len(arg0.links) |-> NameOf(arg0.links[k])]))
                 => \E k \in 1..Len(ret) :
                        IF fn = "_append_scraped_artifact"
                        THEN ret[k][1] = Scraped(id)
                        ELSE ret[k][2] = Scraped(id)

\* C3: a sliced batch hands to the single-entity fetch exactly the identifiers
\* L[init..] (end = -1) or L[init..end-1], once each and in that order, and
\* then ends.
C3_FetchesExactlyTheSlice ==
    (fn \in Sliced /\ IsDistinct(arg0.links) /\ pc \in {"returned", "raised"}) =>
        fetched = SliceOf(arg0.links, arg0.init, arg0.end)

\* C3 restricted to the orchestrators that guard the fetch.
C3_GuardedFetchesExactlyTheSlice ==
    (fn \in Guarded /\ pc \in {"returned", "raised"}) =>
        /\ pc = "returned"
        /\ fetched = SliceOf(arg0.links, arg0.init, arg0.end)

----------------------------------------------------------------------------
(* Embedded-blob extractor: Understat._get_json_data                       *)

\* The orchestrator variables of a call that is not an orchestrator's.
batchvars == <<failing, links, i, results, stdout, fetched>>

NoBatch ==
    /\ failing = {}
    /\ links = <<>>
    /\ i = 0
    /\ results = <<>>
    /\ stdout = <<>>
    /\ fetched = <<>>

Return(v) == [kind |-> "return", value |-> v]
Raise(e, m) == [kind |-> "raise", error |-> e, msg |-> m]

\* The characters of the raw texts: the delimiters' characters, a JSON digit
\* and the backslash of the escape sequences.
Alphabet == {"(", "'", ")", "9", "\\"}

OpenDelim == <<"(", "'">>
CloseDelim == <<"'", ")">>

\* sub occurs in s at the 0-based position k
OccursAt(s, sub, k) ==
    /\ k >= 0
    /\ k + Len(sub) <= Len(s)
    /\ \A j \in 1..Len(sub) : s[k + j] = sub[j]

\* str.find(sub, start): the lowest 0-based position >= start, or -1
StrFind(s, sub, start) ==
    IF \E k \in start..Len(s) : OccursAt(s, sub, k)
    THEN CHOOSE k \in start..Len(s) :
            /\ OccursAt(s, sub, k)
            /\ \A j \in start..(k - 1) : ~OccursAt(s, sub, j)
    ELSE -1

\* bytes.decode('unicode_escape') of the str's UTF-8 bytes, on Alphabet:
\* \\ is a backslash, \' a quote, an unknown escape (\(, \), \9) is kept as
\* it is, and a backslash at the end of the text is a UnicodeDecodeError.
\* [ok, text]: text is the decoded text of s from position k (1-based) on.
RECURSIVE UnicodeEscapeFrom(_, _)
UnicodeEscapeFrom(s, k) ==
    IF k > Len(s) THEN [ok |-> TRUE, text |-> <<>>]
    ELSE IF s[k] # "\\" THEN
        LET rest == UnicodeEscapeFrom(s, k + 1)
        IN  [ok |-> rest.ok, text |-> <<s[k] >> \o rest.text]
    ELSE IF k = Len(s) THEN [ok |-> FALSE, text |-> <<>>]
    ELSE
        LET rest == UnicodeEscapeFrom(s, k + 2)
            head == IF s[k + 1] \in {"\\", "'"} THEN <<s[k + 1] >> ELSE <<s[k], s[k + 1] >>
        IN  [ok |-> rest.ok, text |-> head \o rest.text]

UnicodeEscape(s) == UnicodeEscapeFrom(s, 1)

\* json.loads on a text over Alphabet: the only JSON documents are the
\* numbers 9, 99, ...; anything else (the empty text too) is a JSONDecodeError.
JsonLoads(s) ==
    IF s # <<>> /\ \A k \in 1..Len(s) : s[k] = "9"
    THEN Return([json |-> "number", digits |-> s])
    ELSE Raise("JSONDecodeError", "Expecting value")

\* the tail of _get_json_data: slice, unescape, parse
DecodeBetween(data, str_start, str_end) ==
    LET json_data == PySlice(data, str_start, str_end)
        decoded == UnicodeEscape(json_data)
    IN  IF ~decoded.ok
        THEN Raise("UnicodeDecodeError", "\\ at end of string")
        ELSE JsonLoads(decoded.text)

\* _get_json_data with str.find in the place of str.index
GetJsonDataWithFind(data) ==
    DecodeBetween(data, StrFind(data, OpenDelim, 0) + 2, StrFind(data, CloseDelim, 0))

\* _get_json_data(data): what the call returns or raises
GetJsonData(data) ==
    LET open == StrFind(data, OpenDelim, 0)
        close == StrFind(data, CloseDelim, 0)
    IN  IF open = -1 THEN Raise("ValueError", "substring not found")
        ELSE IF close = -1 THEN Raise("ValueError", "substring not found")
        ELSE DecodeBetween(data, open + 2, close)

InitExtract ==
    /\ fn = "_get_json_data"
    /\ pc = "ready"
    /\ arg0 \in SeqsUpTo(Alphabet, MaxText)
    /\ arg = arg0
    /\ ret = None
    /\ NoBatch

GetJsonDataCall ==
    /\ fn = "_get_json_data" /\ pc = "ready"
    /\ ret' = GetJsonData(arg)
    /\ pc' = IF ret'.kind = "raise" THEN "raised" ELSE "returned"
    /\ UNCHANGED <<fn, arg0, arg, batchvars>>

NextExtract == GetJsonDataCall

SpecExtract == InitExtract /\ [][NextExtract]_vars

\* sub occurs somewhere in s
Contains(s, sub) == \E k \in 0..Len(s) : OccursAt(s, sub, k)

\* C4: when the open delimiter (' or the close delimiter ') is absent from the
\* raw text, _get_json_data raises the not-found error and returns no value.
C4_AbsentDelimiterNotFound ==
    (fn = "_get_json_data" /\ pc # "ready"
        /\ (~Contains(arg0, OpenDelim) \/ ~Contains(arg0, CloseDelim))) =>
        /\ pc = "raised"
        /\ ret = Raise("ValueError", "substring not found")

\* A text with an open delimiter and no close delimiter was refused.
C4_Witness ==
    /\ fn = "_get_json_data" /\ pc = "raised"
    /\ Contains(arg0, OpenDelim) /\ ~Contains(arg0, CloseDelim)
    /\ Len(arg0) = 4

----------------------------------------------------------------------------
(* pandas.DataFrame: [columns, index, rows]                                *)
(*   columns: the column names in order; index: the row labels in order;   *)
(*   rows[k]: the cells of row k, a function from column name to cell.     *)

NaN == "NaN"

\* The label of the position n of a RangeIndex, as text.
PosLabel(n) == <<"0", "1", "2", "3", "4", "5", "6", "7", "8", "9">>[n + 1]

\* The keys of a list of dicts in the order of their first appearance.
RECURSIVE KeysInOrder(_)
KeysInOrder(records) ==
    IF records = <<>> THEN <<>>
    ELSE LET n == Len(records)
             before == KeysInOrder(SubSeq(records, 1, n - 1))
             IsNew(c) == c \notin Range(before)
         IN  before \o SelectSeq(DictKeys(records[n]), IsNew)

\* pd.DataFrame(list of dicts): one row per dict, a RangeIndex, the columns
\* are the keys in the order of their first appearance, NaN where a dict
\* lacks a key.  An empty list gives a table with no column.
DataFrame(records) ==
    LET cols == KeysInOrder(records)
    IN  [columns |-> cols,
         index |-> [k \in 1..Len(records) |-> PosLabel(k - 1)],
         rows |-> [k \in 1..Len(records) |->
                     [c \in Range(cols) |->
                        IF DictHas(records[k], c) THEN DictGet(records[k], c) ELSE NaN]]]

HasColumn(df, c) == c \in Range(df.columns)

\* df[c] = values: a new column goes last, an existing one is overwritten
SetColumn(df, c, values) ==
    [columns |-> IF HasColumn(df, c) THEN df.columns ELSE Append(df.columns, c),
     index |-> df.index,
     rows |-> [k \in 1..Len(df.rows) |->
                 [x \in Range(df.columns) \cup {c} |->
                    IF x = c THEN values[k] ELSE df.rows[k][x]]]]

\* df.drop(columns=cols, inplace=True), all of cols being columns of df
DropColumns(df, cols) ==
    LET Kept(c) == c \notin cols
    IN  [columns |-> SelectSeq(df.columns, Kept),
         index |-> df.index,
         rows |-> [k \in 1..Len(df.rows) |->
                     [x \in Range(df.columns) \ cols |-> df.rows[k][x]]]]

\* pd.concat([a, b]): the rows of a then the rows of b with their own labels;
\* the columns of a, then the columns only b has; NaN where a column is new
\* to a row.
Concat(a, b) ==
    LET IsNew(c) == ~HasColumn(a, c)
        cols == a.columns \o SelectSeq(b.columns, IsNew)
        Widen(df, row) == [c \in Range(cols) |-> IF HasColumn(df, c) THEN row[c] ELSE NaN]
    IN  [columns |-> cols,
         index |-> a.index \o b.index,
         rows |-> [k \in 1..Len(a.rows) |-> Widen(a, a.rows[k])]
                  \o [k \in 1..Len(b.rows) |-> Widen(b, b.rows[k])]]

----------------------------------------------------------------------------
(* Games normalizer: Understat._transform_games_data_df                    *)

TeamIds == <<"89", "82", "71">>
TeamTitles == <<"Manchester United", "Tottenham", "Aston Villa">>
TeamShortTitles == <<"MUN", "TOT", "AVL">>

Team(t) == [id |-> TeamIds[t], title |-> TeamTitles[t], short_title |-> TeamShortTitles[t]]

\* One record of datesData: home t, away u, home goals g.
MatchRecord(t, u, g) ==
    << <<"id", "14086">>,
       <<"isResult", "true">>,
       <<"h", Team(t)>>,
       <<"a", Team(u)>>,
       <<"goals", [h |-> g, a |-> "0"] >>,
       <<"xG", [h |-> "1.5", a |-> "0.7"] >>,
       <<"datetime", "2020-09-12">>,
       <<"forecast", [w |-> "0.6", d |-> "0.3", l |-> "0.1"] >> >>

MatchRecords == {MatchRecord(t, u, g) : t \in 1..2, u \in 2..3, g \in {"0", "1"}}

\* The assignments of _transform_games_data_df in order:
\* games_data_df[new] = games_data_df[src].apply(lambda x: x[key])
GamesAssignments ==
    << <<"home_team_id", "h", "id">>,
       <<"home_team_name", "h", "title">>,
       <<"home_team_short_name", "h", "short_title">>,
       <<"away_team_id", "a", "id">>,
       <<"away_team_name", "a", "title">>,
       <<"away_team_short_name", "a", "short_title">>,
       <<"home_goals", "goals", "h">>,
       <<"away_goals", "goals", "a">>,
       <<"home_xG", "xG", "h">>,
       <<"away_xG", "xG", "a">>,
       <<"forecast_win", "forecast", "w">>,
       <<"forecast_draw", "forecast", "d">>,
       <<"forecast_loss", "forecast", "l">> >>

NestedColumns == {"h", "a", "goals", "xG", "forecast"}

\* The assignments from the k-th on, then the drop, all on the one table
\* object: [df, ret] is the object as the call leaves it and what the call
\* returns or raises.  A missing source column is a KeyError at that
\* statement; the statements before it have already changed the object.
RECURSIVE TransformFrom(_, _)
TransformFrom(df, k) ==
    IF k > Len(GamesAssignments)
    THEN IF NestedColumns \subseteq Range(df.columns)
         THEN LET out == DropColumns(df, NestedColumns)
              IN  [df |-> out, ret |-> Return(out)]
         ELSE [df |-> df, ret |-> Raise("KeyError", "not found in axis")]
    ELSE LET new == GamesAssignments[k][1]
             src == GamesAssignments[k][2]
             key == GamesAssignments[k][3]
         IN  IF ~HasColumn(df, src)
             THEN [df |-> df, ret |-> Raise("KeyError", src)]
             ELSE IF \E r \in 1..Len(df.rows) : key \notin DOMAIN df.rows[r][src]
             THEN [df |-> df, ret |-> Raise("KeyError", key)]
             ELSE TransformFrom(
                      SetColumn(df, new, [r \in 1..Len(df.rows) |-> df.rows[r][src][key]]),
                      k + 1)

\* _transform_games_data_df that hands back a table without the nested
\* columns as it is
TransformGamesDataIfNested(games_data_df) ==
    IF Range(games_data_df.columns) \cap NestedColumns = {}
    THEN [df |-> games_data_df, ret |-> Return(games_data_df)]
    ELSE TransformFrom(games_data_df, 1)

\* _transform_games_data_df(games_data_df)
TransformGamesData(games_data_df) == TransformFrom(games_data_df, 1)

InitGames ==
    /\ fn = "_transform_games_data_df"
    /\ pc = "ready"
    /\ arg0 \in SeqsUpTo(MatchRecords, MaxGames)
    /\ arg = None
    /\ ret = None
    /\ NoBatch

\* the caller: games_df = pd.DataFrame(games_json)
GamesDataFrame ==
    /\ fn = "_transform_games_data_df" /\ pc = "ready"
    /\ arg' = DataFrame(arg0)
    /\ pc' = "called"
    /\ UNCHANGED <<fn, arg0, ret, batchvars>>

\* games_df = self._transform_games_data_df(games_df)
TransformGamesDataCall ==
    /\ fn = "_transform_games_data_df" /\ pc = "called"
    /\ LET r == TransformGamesData(arg)
       IN  /\ arg' = r.df
           /\ ret' = r.ret
           /\ pc' = IF r.ret.kind = "raise" THEN "raised" ELSE "returned"
    /\ UNCHANGED <<fn, arg0, batchvars>>

\* the output fed to the normalizer again:
\* self._transform_games_data_df(games_df) on the table the first call returned
TransformGamesDataAgain ==
    /\ fn = "_transform_games_data_df" /\ pc = "returned"
    /\ LET r == TransformGamesData(ret.value)
       IN  /\ arg' = r.df
           /\ ret' = r.ret
           /\ pc' = IF r.ret.kind = "raise" THEN "raised_again" ELSE "returned_again"
    /\ UNCHANGED <<fn, arg0, batchvars>>

NextGames ==
    \/ GamesDataFrame
    \/ TransformGamesDataCall
    \/ TransformGamesDataAgain

SpecGames == InitGames /\ [][NextGames]_vars

----------------------------------------------------------------------------
(* Claims about the games normalizer *)

GamesColumns == {GamesAssignments[k][1] : k \in 1..Len(GamesAssignments)}

\* The table is the flat form of the array: one row per record in input
\* order, every unnested column present with the record's value, no nested
\* column left.
IsFlatFormOf(df, games_json) ==
    /\ Len(df.rows) = Len(games_json)
    /\ GamesColumns \subseteq Range(df.columns)
    /\ Range(df.columns) \cap NestedColumns = {}
    /\ \A k \in 1..Len(games_json) : \A a \in 1..Len(GamesAssignments) :
          df.rows[k][GamesAssignments[a][1]]
              = DictGet(games_json[k], GamesAssignments[a][2])[GamesAssignments[a][3]]

GamesCallEnded == fn = "_transform_games_data_df" /\ pc \in {"returned", "raised"}

\* C5: for every array of match records the games normalizer returns a table
\* with one row per record, in input order, that has the thirteen unnested
\* columns and none of the columns h, a, goals, xG, forecast.
C5_OneFlatRowPerRecord ==
    GamesCallEnded => (pc = "returned" /\ IsFlatFormOf(ret.value, arg0))

\* C5 for the arrays that have at least one record.
C5_NonEmptyOneFlatRowPerRecord ==
    (GamesCallEnded /\ arg0 # <<>>) => (pc = "returned" /\ IsFlatFormOf(ret.value, arg0))

\* C6: the games normalizer leaves the table it was given as it was: same
\* columns (h, a, goals, xG, forecast included) and same rows.
C6_InputTableNotMutated ==
    GamesCallEnded => arg = DataFrame(arg0)

\* What the code does instead: the returned table is the caller's object.
C6_ReturnsTheMutatedInput ==
    (GamesCallEnded /\ pc = "returned") => (arg = ret.value /\ arg # DataFrame(arg0))

----------------------------------------------------------------------------
(* Shots normalizer: Understat._get_shots_df, from the decoded shotsData   *)

\* The minute texts of the shots: "9" sorts after "10" as text, before it as
\* a number.
Minutes == {<<"3">>, <<"9">>, <<"1", "0">>}

DigitValue(c) ==
    CASE c = "0" -> 0 [] c = "1" -> 1 [] c = "2" -> 2 [] c = "3" -> 3 [] c = "4" -> 4
      [] c = "5" -> 5 [] c = "6" -> 6 [] c = "7" -> 7 [] c = "8" -> 8 [] c = "9" -> 9

\* int(text) of a text of decimal digits
RECURSIVE StrToInt(_)
StrToInt(text) ==
    IF text = <<>> THEN 0
    ELSE 10 * StrToInt(SubSeq(text, 1, Len(text) - 1)) + DigitValue(text[Len(text)])

\* The k-th shot of a side: every shot of the site has its own id.
Shot(side, k, minute) ==
    << <<"id", IF side = "h" THEN PosLabel(k) ELSE PosLabel(MaxShots + 1 + k)>>,
       <<"minute", minute>>,
       <<"h_a", side>> >>

ShotList(side, minutes) == [k \in 1..Len(minutes) |-> Shot(side, k, minutes[k])]

ShotsJsons ==
    {[h |-> ShotList("h", hm), a |-> ShotList("a", am)] :
        hm \in SeqsUpTo(Minutes, MaxShots), am \in SeqsUpTo(Minutes, MaxShots)}

\* df[c] = df[c].astype(int)
AstypeInt(df, c) ==
    SetColumn(df, c, [k \in 1..Len(df.rows) |-> StrToInt(df.rows[k][c])])

\* The orders (sequences of row positions) of the rows S in which the column
\* c does not decrease.  sort_values sorts with kind='quicksort', which is
\* not stable: rows with equal keys may come out in any order.
RECURSIVE SortedOrders(_, _, _)
SortedOrders(df, c, S) ==
    IF S = {} THEN {<<>>}
    ELSE LET least == {x \in S : \A y \in S : df.rows[x][c] <= df.rows[y][c]}
         IN  UNION {{<<x>> \o rest : rest \in SortedOrders(df, c, S \ {x})} : x \in least}

\* the rows of df in the given order, each with its label
Reorder(df, order) ==
    [columns |-> df.columns,
     index |-> [k \in 1..Len(order) |-> df.index[order[k]]],
     rows |-> [k \in 1..Len(order) |-> df.rows[order[k]]]]

\* df.sort_values(by=[c], inplace=True): the tables it may leave
SortValues(df, c) ==
    {Reorder(df, order) : order \in SortedOrders(df, c, 1..Len(df.rows))}

\* _get_shots_df: the results the call may have (one, but for the order of
\* the shots of one minute)
GetShotsDf(shots_json) ==
    LET shots_df == Concat(DataFrame(shots_json.h), DataFrame(shots_json.a))
    IN  IF ~HasColumn(shots_df, "minute")
        THEN {Raise("KeyError", "minute")}
        ELSE {Return(sorted) : sorted \in SortValues(AstypeInt(shots_df, "minute"), "minute")}

InitShots ==
    /\ fn = "_get_shots_df"
    /\ pc = "ready"
    /\ arg0 \in ShotsJsons
    /\ arg = arg0
    /\ ret = None
    /\ NoBatch

GetShotsDfCall ==
    /\ fn = "_get_shots_df" /\ pc = "ready"
    /\ ret' \in GetShotsDf(arg)
    /\ pc' = IF ret'.kind = "raise" THEN "raised" ELSE "returned"
    /\ UNCHANGED <<fn, arg0, arg, batchvars>>

NextShots == GetShotsDfCall

SpecShots == InitShots /\ [][NextShots]_vars

ShotsCallEnded == fn = "_get_shots_df" /\ pc \in {"returned", "raised"}

\* The table has each shot of h and a exactly once, and the minutes, read as
\* integers, do not decrease from a row to the next.
IsSortedShotsOf(df, shots_json) ==
    LET all == shots_json.h \o shots_json.a
        ids == [k \in 1..Len(df.rows) |-> df.rows[k]["id"]]
        MinuteOfId(id) ==
            StrToInt(DictGet(all[CHOOSE k \in 1..Len(all) : DictGet(all[k], "id") = id],
                             "minute"))
    IN  /\ Len(df.rows) = Len(shots_json.h) + Len(shots_json.a)
        /\ IsDistinct(ids)
        /\ Range(ids) = {DictGet(all[k], "id") : k \in 1..Len(all)}
        /\ \A k \in 1..Len(df.rows) : df.rows[k]["h_a"] \in {"h", "a"}
        /\ \A k \in 1..(Len(df.rows) - 1) : MinuteOfId(ids[k]) <= MinuteOfId(ids[k + 1])

\* C7: for every shot collection with home list H and away list A the shots
\* normalizer returns |H| + |A| rows, each shot once, the minute as an integer
\* non-decreasing from each row to the next.
C7_AllShotsSortedByMinute ==
    ShotsCallEnded => (pc = "returned" /\ IsSortedShotsOf(ret.value, arg0))

\* C7 for the collections with at least one shot.
C7_SomeShotSortedByMinute ==
    (ShotsCallEnded /\ arg0.h \o arg0.a # <<>>) =>
        (pc = "returned" /\ IsSortedShotsOf(ret.value, arg0))

----------------------------------------------------------------------------
(* Roster normalizer: Understat._get_roster_stats_df, from the decoded     *)
(* rostersData                                                             *)

RosterKeys == <<"454138", "454139", "454140", "454141", "454142", "454143">>

\* The value objects of the rosters.
PlayerStats ==
    { << <<"player", p>>, <<"goals", g>> >> :
        p \in {"Harry Kane", "Son Heung-Min"}, g \in {"0", "1"} }

\* The mappings of one side: keys in the document's order, from the k-th key on.
RosterMappings(first) ==
    UNION {{[k \in 1..n |-> <<RosterKeys[first + k], vals[k]>>] : vals \in [1..n -> PlayerStats]} :
              n \in 0..MaxRoster}

RosterJsons ==
    {[h |-> hm, a |-> am] : hm \in RosterMappings(0), am \in RosterMappings(MaxRoster)}

\* for _, item in mapping.items(): out.append(item)
ItemsValues(mapping) == DictValues(mapping)

\* _get_roster_stats_df with the away loop reading json_data['h'] again
GetRosterStatsDfHomeTwice(json_data) ==
    Return(Concat(DataFrame(ItemsValues(json_data.h)), DataFrame(ItemsValues(json_data.h))))

\* _get_roster_stats_df
GetRosterStatsDf(json_data) ==
    LET json_data_home == ItemsValues(json_data.h)
        json_data_away == ItemsValues(json_data.a)
        home_data == DataFrame(json_data_home)
        away_data == DataFrame(json_data_away)
    IN  Return(Concat(home_data, away_data))

InitRoster ==
    /\ fn = "_get_roster_stats_df"
    /\ pc = "ready"
    /\ arg0 \in RosterJsons
    /\ arg = arg0
    /\ ret = None
    /\ NoBatch

GetRosterStatsDfCall ==
    /\ fn = "_get_roster_stats_df" /\ pc = "ready"
    /\ ret' = GetRosterStatsDf(arg)
    /\ pc' = IF ret'.kind = "raise" THEN "raised" ELSE "returned"
    /\ UNCHANGED <<fn, arg0, arg, batchvars>>

NextRoster == GetRosterStatsDfCall

SpecRoster == InitRoster /\ [][NextRoster]_vars

\* The cells of a table row are exactly the fields of the value object.
IsRowOf(row, object) ==
    /\ DOMAIN row = Range(DictKeys(object))
    /\ \A c \in DOMAIN row : row[c] = DictGet(object, c)

----------------------------------------------------------------------------
(* Positional stat flattener: Understat._get_player_positions_df, from the *)
(* decoded three-level object.  Stat and aggregation names are texts       *)
(* (sequences of characters): the code joins them into column names.       *)

PositionNames == <<"GK", "D", "M", "F">>

StatNames == << <<"a">>, <<"a", "_", "b">> >>
AggNames == << <<"c">>, <<"b", "_", "c">> >>

\* The subsequence of names at the positions in S, in the order of names.
Pick(names, S) == LET In(x) == \E k \in S : names[k] = x IN SelectSeq(names, In)

\* stat -> aggregation -> value objects: for each stat either absent or a
\* dict over some of the aggregations.
StatsDicts ==
    {[k \in 1..Len(aggs) |-> <<aggs[k], "0.5">>] :
        aggs \in {Pick(AggNames, S) : S \in SUBSET (1..Len(AggNames))}}

PositionDicts ==
    {LET stats == Pick(StatNames, DOMAIN f)
     IN  [k \in 1..Len(stats) |->
            <<stats[k], f[CHOOSE x \in DOMAIN f : StatNames[x] = stats[k]]>>] :
        f \in UNION {[S -> StatsDicts] : S \in SUBSET (1..Len(StatNames))}}

PositionsJsons ==
    UNION {{[k \in 1..n |-> <<PositionNames[k], dicts[k]>>] : dicts \in [1..n -> PositionDicts]} :
              n \in 0..MaxPositions}

\* f'{stat}_{math}'
ColumnName(stat, math) == stat \o <<"_">> \o math

\* for math, stat_value in stats.items(): row[f'{stat}_{math}'] = stat_value
RECURSIVE SetAggs(_, _, _, _)
SetAggs(row, stat, stats, k) ==
    IF k > Len(stats) THEN row
    ELSE SetAggs(DictSet(row, ColumnName(stat, stats[k][1]), stats[k][2]), stat, stats, k + 1)

\* for stat, stats in position_dict.items(): ...
RECURSIVE SetStats(_, _, _)
SetStats(row, position_dict, k) ==
    IF k > Len(position_dict) THEN row
    ELSE SetStats(SetAggs(row, position_dict[k][1], position_dict[k][2], 1),
                  position_dict, k + 1)

\* for position, position_dict in json_data.items(): ...
RECURSIVE NewData(_, _, _)
NewData(new_data, json_data, k) ==
    IF k > Len(json_data) THEN new_data
    ELSE LET position == json_data[k][1]
             started == IF DictHas(new_data, position) THEN new_data
                        ELSE DictSet(new_data, position, <<>>)
             row == SetStats(DictGet(started, position), json_data[k][2], 1)
         IN  NewData(DictSet(started, position, row), json_data, k + 1)

\* pd.DataFrame(dict of dicts): one column per outer key; the row labels are
\* the inner keys in the order of their first appearance.
DataFrameOfColumns(d) ==
    LET labels == KeysInOrder(DictValues(d))
    IN  [columns |-> DictKeys(d),
         index |-> labels,
         rows |-> [k \in 1..Len(labels) |->
                     [c \in Range(DictKeys(d)) |->
                        IF DictHas(DictGet(d, c), labels[k])
                        THEN DictGet(DictGet(d, c), labels[k]) ELSE NaN]]]

\* df.transpose()
Transpose(df) ==
    [columns |-> df.index,
     index |-> df.columns,
     rows |-> [k \in 1..Len(df.columns) |->
                 [c \in Range(df.index) |->
                    df.rows[CHOOSE r \in 1..Len(df.index) : df.index[r] = c][df.columns[k]]]]]

\* _get_player_positions_df
GetPlayerPositionsDf(json_data) ==
    Return(Transpose(DataFrameOfColumns(NewData(<<>>, json_data, 1))))

InitPositions ==
    /\ fn = "_get_player_positions_df"
    /\ pc = "ready"
    /\ arg0 \in PositionsJsons
    /\ arg = arg0
    /\ ret = None
    /\ NoBatch

GetPlayerPositionsDfCall ==
    /\ fn = "_get_player_positions_df" /\ pc = "ready"
    /\ ret' = GetPlayerPositionsDf(arg)
    /\ pc' = IF ret'.kind = "raise" THEN "raised" ELSE "returned"
    /\ UNCHANGED <<fn, arg0, arg, batchvars>>

NextPositions == GetPlayerPositionsDfCall

SpecPositions == InitPositions /\ [][NextPositions]_vars

\* The (stat, aggregation) pairs observed across all positions.
ObservedPairs(json_data) ==
    UNION {UNION {{<<json_data[p][2][s][1], json_data[p][2][s][2][m][1]>> :
                      m \in 1..Len(json_data[p][2][s][2])} :
                  s \in 1..Len(json_data[p][2])} :
           p \in 1..Len(json_data)}

PositionsCallEnded == fn = "_get_player_positions_df" /\ pc \in {"returned", "raised"}

\* C9: the positional stat flattener returns a table with one row per
\* position and one column per distinct (stat, aggregation) pair observed
\* across all positions, whatever the names (names with "_" included).
C9_OneColumnPerPair ==
    PositionsCallEnded =>
        /\ pc = "returned"
        /\ Len(ret.value.rows) = Len(arg0)
        /\ Len(ret.value.columns) = Cardinality(ObservedPairs(arg0))

\* What holds: one row per position, in order, and one column per distinct
\* synthesized name.
C9_OneRowPerPosition ==
    PositionsCallEnded =>
        /\ pc = "returned"
        /\ ret.value.index = DictKeys(arg0)
        /\ IsDistinct(ret.value.columns)
        /\ Range(ret.value.columns)
              = {ColumnName(pair[1], pair[2]) : pair \in ObservedPairs(arg0)}

----------------------------------------------------------------------------
(* League-team-history restructurer: Understat._get_teams_stats_league_df  *)
(* A JSON value carries its Python type: [type, v], v the items of a list   *)
(* or the text of a scalar.                                                *)

JsonStr(v) == [type |-> "str", v |-> v]
JsonInt(v) == [type |-> "int", v |-> v]
JsonBool(v) == [type |-> "bool", v |-> v]
JsonList(v) == [type |-> "list", v |-> v]

\* The k-th entry of a history list.
HistoryEntry(k) == << <<"h_a", JsonStr("h")>>, <<"date", JsonStr(PosLabel(k))>> >>

History(n) == JsonList([k \in 1..n |-> HistoryEntry(k)])

\* The value of teamsData for the t-th team: id as a string (as the site
\* has it) or as a number, the title, an optional boolean, the history.
TeamObject(t, id_type, flagged, n) ==
    << <<"id", IF id_type = "str" THEN JsonStr(TeamIds[t]) ELSE JsonInt(TeamIds[t])>>,
       <<"title", JsonStr(TeamTitles[t])>> >>
    \o (IF flagged THEN << <<"promoted", JsonBool("true")>> >> ELSE <<>>)
    \o << <<"history", History(n)>> >>

TeamObjects(t) ==
    {TeamObject(t, id_type, flagged, n) :
        id_type \in {"str", "int"}, flagged \in BOOLEAN, n \in 0..MaxHistory}

TeamsJsons ==
    UNION {{[t \in 1..n |-> <<TeamIds[t], objs[t]>>] :
               objs \in {f \in [1..n -> UNION {TeamObjects(t) : t \in 1..n}] :
                            \A t \in 1..n : f[t] \in TeamObjects(t)}} :
              n \in 0..MaxTeams}

\* isinstance(item2_2, str)
IsCopied(value) == value.type = "str"

\* for key2_2, item2_2 in item.items(): if isinstance(item2_2, str): dictionary[key2_2] = item2_2
RECURSIVE CopySiblings(_, _, _)
CopySiblings(dictionary, item, k) ==
    IF k > Len(item) THEN dictionary
    ELSE CopySiblings(IF IsCopied(item[k][2])
                      THEN DictSet(dictionary, item[k][1], item[k][2])
                      ELSE dictionary,
                      item, k + 1)

\* for _, item2 in item.items(): if isinstance(item2, list): for dictionary in item2: ...
\* The team object after the loops: the dicts of its lists are changed in place.
Denormalized(item) ==
    [k \in 1..Len(item) |->
        IF item[k][2].type = "list"
        THEN <<item[k][1],
               JsonList([e \in 1..Len(item[k][2].v) |-> CopySiblings(item[k][2].v[e], item, 1)])>>
        ELSE item[k]]

\* _get_teams_stats_league_df: [teams_json, ret], the caller's object as the
\* call leaves it and the list of tables
GetTeamsStatsLeagueDf(teams_json) ==
    LET after == [t \in 1..Len(teams_json) |->
                    <<teams_json[t][1], Denormalized(teams_json[t][2])>>]
    IN  IF \E t \in 1..Len(after) : ~DictHas(after[t][2], "history")
        THEN [teams_json |-> after, ret |-> Raise("KeyError", "history")]
        ELSE [teams_json |-> after,
              ret |-> Return([t \in 1..Len(after) |->
                                DataFrame(DictGet(after[t][2], "history").v)])]

InitLeague ==
    /\ fn = "_get_teams_stats_league_df"
    /\ pc = "ready"
    /\ arg0 \in TeamsJsons
    /\ arg = arg0
    /\ ret = None
    /\ NoBatch

GetTeamsStatsLeagueDfCall ==
    /\ fn = "_get_teams_stats_league_df" /\ pc = "ready"
    /\ LET r == GetTeamsStatsLeagueDf(arg)
       IN  /\ arg' = r.teams_json
           /\ ret' = r.ret
           /\ pc' = IF r.ret.kind = "raise" THEN "raised" ELSE "returned"
    /\ UNCHANGED <<fn, arg0, batchvars>>

NextLeague == GetTeamsStatsLeagueDfCall

SpecLeague == InitLeague /\ [][NextLeague]_vars

LeagueCallEnded == fn = "_get_teams_stats_league_df" /\ pc \in {"returned", "raised"}

\* One table per team in input order, one row per history entry, and every
\* sibling field of "history" whose type is in types is a column holding the
\* team's value in every row.
IsHistoryTablesOf(tables, teams_json, types) ==
    /\ Len(tables) = Len(teams_json)
    /\ \A t \in 1..Len(teams_json) :
          LET item == teams_json[t][2]
          IN  /\ Len(tables[t].rows) = Len(DictGet(item, "history").v)
              /\ \A r \in 1..Len(tables[t].rows) : \A k \in 1..Len(item) :
                    item[k][2].type \in types =>
                        /\ HasColumn(tables[t], item[k][1])
                        /\ tables[t].rows[r][item[k][1]] = item[k][2]

\* C10: the restructurer returns one table per team, in input order, one row
\* per history entry, and every scalar sibling field of "history" (string,
\* number, boolean) is a column of every row with the team-level value.
C10_EveryScalarSiblingCopied ==
    LeagueCallEnded =>
        (pc = "returned" /\ IsHistoryTablesOf(ret.value, arg0, {"str", "int", "bool"}))

\* What holds: the same for the sibling fields that are strings.
C10_StringSiblingsCopied ==
    LeagueCallEnded => (pc = "returned" /\ IsHistoryTablesOf(ret.value, arg0, {"str"}))

----------------------------------------------------------------------------
(* Identifier resolution: Understat._get_scrape_url, and the fetch that    *)
(* scrape_match / scrape_player make with the resolved URL.                *)
(* A Python value carries its type: an int or a bool is [type, v] (True    *)
(* is 1, False is 0), a str is [type, s], any other value is [type, repr]. *)

base_url_match ==
    <<"h", "t", "t", "p", "s", ":", "/", "/", "u", "n", "d", "e", "r", "s", "t", "a", "t", ".", "c", "o", "m", "/", "m", "a", "t", "c", "h", "/">>
base_url_player ==
    <<"h", "t", "t", "p", "s", ":", "/", "/", "u", "n", "d", "e", "r", "s", "t", "a", "t", ".", "c", "o", "m", "/", "p", "l", "a", "y", "e", "r", "/">>

DigitChar(d) == <<"0", "1", "2", "3", "4", "5", "6", "7", "8", "9">>[d + 1]

\* f"{n}" of a natural number
RECURSIVE NatToStr(_)
NatToStr(n) ==
    IF n < 10 THEN <<DigitChar(n)>> ELSE NatToStr(n \div 10) \o <<DigitChar(n % 10)>>

\* f"{match}" of a value that isinstance counts as an int: bool is a subclass
\* of int and formats as True / False.
FormatInt(match) ==
    IF match.type = "bool"
    THEN (IF match.v = 1 THEN <<"T", "r", "u", "e">> ELSE <<"F", "a", "l", "s", "e">>)
    ELSE IF match.v < 0 THEN <<"-">> \o NatToStr(0 - match.v)
    ELSE NatToStr(match.v)

\* isinstance(match, int)
IsInstanceInt(match) == match.type \in {"int", "bool"}

\* isinstance(match, str)
IsInstanceStr(match) == match.type = "str"

\* The identifiers a caller may pass.
Identifiers ==
    {[type |-> "int", v |-> n] : n \in (0 - MaxMatchId)..MaxMatchId}
    \cup {[type |-> "bool", v |-> b] : b \in {0, 1}}
    \cup {[type |-> "str", s |-> t] :
            t \in {<<>>, <<"2", "2">>, base_url_match \o <<"2", "2">>,
                   base_url_player \o <<"8">>}}
    \cup {[type |-> "float", repr |-> "1.5"],
          [type |-> "NoneType", repr |-> "None"],
          [type |-> "list", repr |-> "[]"]}

\* _get_scrape_url(match, base_url)
GetScrapeUrl(match, base_url) ==
    IF IsInstanceInt(match)
    THEN Return(base_url \o FormatInt(match))
    ELSE IF ~IsInstanceStr(match)
    THEN Raise("ValueError",
               "O argumento match precisa ser um int (match_id) ou uma string (url da partida)")
    ELSE Return(match.s)

InitScrapeUrl ==
    /\ fn = "_get_scrape_url"
    /\ pc = "ready"
    /\ \E match \in Identifiers, base_url \in {base_url_match, base_url_player} :
          arg0 = [match |-> match, base_url |-> base_url]
    /\ arg = arg0
    /\ ret = None
    /\ NoBatch

\* scrape_url = self._get_scrape_url(match, base_url)
GetScrapeUrlCall ==
    /\ fn = "_get_scrape_url" /\ pc = "ready"
    /\ ret' = GetScrapeUrl(arg.match, arg.base_url)
    /\ pc' = IF ret'.kind = "raise" THEN "raised" ELSE "returned"
    /\ UNCHANGED <<fn, arg0, arg, batchvars>>

\* the caller goes on: scripts = self._find_scripts(scrape_url)
FindScriptsCall ==
    /\ fn = "_get_scrape_url" /\ pc = "returned"
    /\ fetched' = Append(fetched, ret.value)
    /\ pc' = "fetched"
    /\ UNCHANGED <<fn, arg0, arg, ret, failing, links, i, results, stdout>>

NextScrapeUrl ==
    \/ GetScrapeUrlCall
    \/ FindScriptsCall

SpecScrapeUrl == InitScrapeUrl /\ [][NextScrapeUrl]_vars

\* text is the decimal text of the integer n
IsDecimalOf(text, n) ==
    LET digits == IF n < 0 THEN Tail(text) ELSE text
        m == IF n < 0 THEN 0 - n ELSE n
    IN  /\ text # <<>>
        /\ (n < 0) = (text[1] = "-")
        /\ digits # <<>>
        /\ \A k \in 1..Len(digits) : digits[k] \in {DigitChar(d) : d \in 0..9}
        /\ (Len(digits) > 1 => digits[1] # "0")
        /\ StrToInt(digits) = m

\* The call resolved the identifier as the claim says: base URL and decimal
\* text for an integer, the string itself for a string, and for any of the
\* kinds in refused the ValueError, with no URL fetched.
ResolvedAsClaimed(refused) ==
    LET match == arg0.match
    IN  /\ match.type = "int" =>
              /\ pc \in {"returned", "fetched"}
              /\ Len(ret.value) >= Len(arg0.base_url)
              /\ SubSeq(ret.value, 1, Len(arg0.base_url)) = arg0.base_url
              /\ IsDecimalOf(SubSeq(ret.value, Len(arg0.base_url) + 1, Len(ret.value)),
                             match.v)
        /\ match.type = "str" =>
              (pc \in {"returned", "fetched"} /\ ret.value = match.s)
        /\ match.type \in refused =>
              (pc = "raised" /\ ret.error = "ValueError" /\ fetched = <<>>)

ScrapeUrlCallEnded == fn = "_get_scrape_url" /\ pc # "ready"

\* C11: an integer identifier n resolves to the base URL followed by the
\* decimal text of n, a string identifier to that string unchanged, and an
\* identifier of any other kind (neither integer nor string) fails with the
\* invalid-argument error, no URL being produced or fetched.
C11_IdentifierResolution ==
    ScrapeUrlCallEnded => ResolvedAsClaimed({"bool", "float", "NoneType", "list"})

\* What holds: the same, but for a bool, which isinstance counts as an int.
C11_ResolutionButForBool ==
    ScrapeUrlCallEnded =>
        /\ ResolvedAsClaimed({"float", "NoneType", "list"})
        /\ arg0.match.type = "bool" =>
              (pc \in {"returned", "fetched"}
                 /\ ret.value = arg0.base_url \o FormatInt(arg0.match))

----------------------------------------------------------------------------
(* Understat.scrape_matches_from_league: the season's matches, the links   *)
(* of the played ones, _scrape_matches over them, and the return.          *)

\* The keys of self.leagues
Leagues ==
    {"Serie A", "Premier League", "La Liga", "Bundesliga", "Ligue 1",
     "Russian Premier League"}

\* The datesData of a season: one record per match, played or not.
SeasonMatches ==
    UNION {[1..n -> {[id |-> k, isResult |-> b] : k \in Ids, b \in BOOLEAN}] : n \in 0..MaxLinks}

MatchesData ==
    {md \in SeasonMatches : \A k \in 1..Len(md) : md[k].id = k}

\* f'https://understat.com/match/{x["id"]}'
MatchLink(x) == base_url_match \o NatToStr(x.id)

\* [f'https://understat.com/match/{x["id"]}' for x in matches_data if x['isResult']]
MatchLinks(matches_data) ==
    LET IsResult(x) == x.isResult
        played == SelectSeq(matches_data, IsResult)
    IN  [k \in 1..Len(played) |-> MatchLink(played[k])]

InitLeagueMatches ==
    /\ fn = "scrape_matches_from_league"
    /\ pc = "ready"
    /\ \E league \in {"Serie A", "EPL"}, md \in MatchesData :
         /\ failing \in SUBSET Range(MatchLinks(md))
         /\ \E init \in 0..Len(md), end \in -1..Len(md) :
              arg0 = [league |-> league, matches_data |-> md, init |-> init, end |-> end]
    /\ arg = arg0
    /\ ret = None
    /\ links = <<>>
    /\ i = 0
    /\ results = <<>>
    /\ stdout = <<>>
    /\ fetched = <<>>

\* matches_data, _, _ = self.scrape_season_data(year, league): the league is
\* not a key of self.leagues
SeasonDataRaise ==
    /\ fn = "scrape_matches_from_league" /\ pc = "ready"
    /\ arg0.league \notin Leagues
    /\ ret' = Raise("KeyError", "Liga invalida")
    /\ pc' = "raised"
    /\ UNCHANGED <<fn, arg0, arg, batchvars>>

\* matches_data, _, _ = self.scrape_season_data(year, league); match_links
SeasonMatchLinks ==
    /\ fn = "scrape_matches_from_league" /\ pc = "ready"
    /\ arg0.league \in Leagues
    /\ arg' = [links |-> MatchLinks(arg0.matches_data),
               init |-> arg0.init, end |-> arg0.end]
    /\ pc' = "called"
    /\ UNCHANGED <<fn, arg0, ret, batchvars>>

\* _scrape_matches(match_links, init, end): matches = dict(); the slice
LeagueMatchesBegin ==
    /\ fn = "scrape_matches_from_league" /\ pc = "called"
    /\ results' = <<>>
    /\ links' = SliceLinks(arg.links, arg.init, arg.end)
    /\ i' = 0
    /\ pc' = "loop"
    /\ UNCHANGED <<fn, arg0, arg, ret, failing, stdout, fetched>>

\* _scrape_matches: one iteration of the for loop
LeagueMatchesIter ==
    /\ fn = "scrape_matches_from_league" /\ pc = "loop" /\ i < Len(links)
    /\ LET link == links[i + 1]
           s == TryScrape(results, stdout, "match", link, failing)
       IN  /\ fetched' = Append(fetched, link)
           /\ results' = s.store
           /\ stdout' = s.out
    /\ i' = i + 1
    /\ UNCHANGED <<fn, pc, arg0, arg, ret, failing, links>>

\* return self._scrape_matches(match_links, init, end), \
\* The trailing comma makes the returned value a tuple of one element.
LeagueMatchesReturn ==
    /\ fn = "scrape_matches_from_league" /\ pc = "loop" /\ i = Len(links)
    /\ ret' = Return(<<results>>)
    /\ pc' = "returned"
    /\ UNCHANGED <<fn, arg0, arg, failing, links, i, results, stdout, fetched>>

NextLeagueMatches ==
    \/ SeasonDataRaise
    \/ SeasonMatchLinks
    \/ LeagueMatchesBegin
    \/ LeagueMatchesIter
    \/ LeagueMatchesReturn

SpecLeagueMatches == InitLeagueMatches /\ [][NextLeagueMatches]_vars

LeagueMatchesReturned == fn = "scrape_matches_from_league" /\ pc = "returned"

\* C12: scrape_matches_from_league returns a tuple of exactly three mappings
\* (matches, teams, players), as its signature and docstring state.
C12_ReturnsThreeMappings ==
    LeagueMatchesReturned => Len(ret.value) = 3

\* What holds: the returned tuple has one element, the matches mapping, whose
\* keys are the links of the played matches of the slice whose fetch succeeded.
C12_ReturnsTheMatchesAlone ==
    LeagueMatchesReturned =>
        /\ Len(ret.value) = 1
        /\ DictKeys(ret.value[1])
             = Succeeded(SliceLinks(MatchLinks(arg0.matches_data), arg0.init, arg0.end),
                         failing)

----------------------------------------------------------------------------
(* The two delimiter extractors side by side: Understat._get_json_data and *)
(* Understat._get_teams_stats_df, on script texts long enough to hold a    *)
(* close delimiter, an open delimiter, a JSON number and a close delimiter.*)

\* "match_info"
MatchInfo == <<"m", "a", "t", "c", "h", "_", "i", "n", "f", "o">>

\* The characters of the script texts around the anchor.
ScriptAlphabet == {"(", "'", ")", "9"}

\* What precedes the anchor in the shots script: nothing, or the shotsData
\* assignment with its own delimited JSON.
BeforeAnchor == {<<>>, <<"(", "'", "9", "'", ")">>}

ScriptTexts == SeqsUpTo(ScriptAlphabet, MaxTail)

TeamTexts == {pre \o MatchInfo \o post : pre \in BeforeAnchor, post \in ScriptTexts}

\* pd.DataFrame([json_data]) of a list of scalars: one column, labelled 0
DataFrameOfList(list) ==
    [columns |-> <<PosLabel(0)>>,
     index |-> [k \in 1..Len(list) |-> PosLabel(k - 1)],
     rows |-> [k \in 1..Len(list) |-> [c \in {PosLabel(0)} |-> list[k]]]]

\* team_stats_df = pd.DataFrame([json_data]) of the parsed value, an error
\* of the parse passing through
TeamStatsDf(parsed) ==
    IF parsed.kind = "raise" THEN parsed ELSE Return(DataFrameOfList(<<parsed.value>>))

\* _get_teams_stats_df(team_data): what the call returns or raises
GetTeamsStatsDf(team_data) ==
    LET match_info_index == StrFind(team_data, MatchInfo, 0)
        open == StrFind(team_data, OpenDelim, match_info_index)
        close == StrFind(team_data, CloseDelim, match_info_index)
    IN  IF match_info_index = -1 THEN Raise("ValueError", "substring not found")
        ELSE IF open = -1 THEN Raise("ValueError", "substring not found")
        ELSE IF close = -1 THEN Raise("ValueError", "substring not found")
        ELSE TeamStatsDf(DecodeBetween(team_data, open + 2, close))

InitDelimited ==
    /\ pc = "ready"
    /\ \/ fn = "_get_json_data" /\ arg0 \in ScriptTexts
       \/ fn = "_get_teams_stats_df" /\ arg0 \in TeamTexts \cup BeforeAnchor
    /\ arg = arg0
    /\ ret = None
    /\ NoBatch

GetTeamsStatsDfCall ==
    /\ fn = "_get_teams_stats_df" /\ pc = "ready"
    /\ ret' = GetTeamsStatsDf(arg)
    /\ pc' = IF ret'.kind = "raise" THEN "raised" ELSE "returned"
    /\ UNCHANGED <<fn, arg0, arg, batchvars>>

NextDelimited ==
    \/ GetJsonDataCall
    \/ GetTeamsStatsDfCall

SpecDelimited == InitDelimited /\ [][NextDelimited]_vars

\* Where the search of the delimiters starts: the anchor in
\* _get_teams_stats_df, the start of the text in _get_json_data.
SearchStart(data) ==
    IF fn = "_get_teams_stats_df" THEN StrFind(data, MatchInfo, 0) ELSE 0

\* The located open delimiter, -1 when there is none (or no anchor).
LocatedOpen(data) ==
    IF SearchStart(data) = -1 THEN -1 ELSE StrFind(data, OpenDelim, SearchStart(data))

\* The first close delimiter after the located open: after its two
\* characters, or (the other reading) after its first character.
NextCloses(data) ==
    {StrFind(data, CloseDelim, LocatedOpen(data) + d) : d \in {1, 2}}

\* What the call gives when the extracted text is the text between the
\* located open and the close delimiter at position close.
ResultBetween(data, close) ==
    LET parsed == DecodeBetween(data, LocatedOpen(data) + 2, close)
    IN  IF fn = "_get_teams_stats_df" THEN TeamStatsDf(parsed) ELSE parsed

DelimitedCallEnded ==
    fn \in {"_get_json_data", "_get_teams_stats_df"} /\ pc # "ready"

\* C13: in _get_json_data and _get_teams_stats_df the close delimiter ') is
\* the first one after the located open delimiter (', so the extracted text
\* is exactly the text between that open and the next close, even when
\* another ') occurs earlier in the text; the result is the parse of that text.
C13_CloseIsFirstAfterOpen ==
    (DelimitedCallEnded /\ LocatedOpen(arg0) # -1
        /\ StrFind(arg0, CloseDelim, LocatedOpen(arg0) + 2) # -1) =>
        \E close \in NextCloses(arg0) : ret = ResultBetween(arg0, close)

\* What holds: the same when no close delimiter lies between the start of the
\* search and the located open.
C13_HoldsWithNoEarlierClose ==
    (DelimitedCallEnded /\ LocatedOpen(arg0) # -1
        /\ StrFind(arg0, CloseDelim, LocatedOpen(arg0) + 2) # -1
        /\ StrFind(arg0, CloseDelim, SearchStart(arg0)) > LocatedOpen(arg0)) =>
        \E close \in NextCloses(arg0) : ret = ResultBetween(arg0, close)

----------------------------------------------------------------------------
(* The order of the shots of one minute after Understat._get_shots_df      *)

\* The position of the shot id in the concatenation of h and a.
ConcatPosition(shots_json, id) ==
    LET all == shots_json.h \o shots_json.a
    IN  CHOOSE k \in 1..Len(all) : DictGet(all[k], "id") = id

\* C14: in the table _get_shots_df returns, shots of the same minute keep
\* their concatenation order: every home shot before every away shot, and two
\* shots of one side in their input order.
C14_TiesKeepConcatenationOrder ==
    (fn = "_get_shots_df" /\ pc = "returned") =>
        LET rows == ret.value.rows
        IN  \A j, k \in 1..Len(rows) :
               (j < k /\ rows[j]["minute"] = rows[k]["minute"]) =>
                   ConcatPosition(arg0, rows[j]["id"]) < ConcatPosition(arg0, rows[k]["id"])

\* What holds: two shots of different minutes come in the order of their
\* minutes, whatever the order inside one minute.
C14_MinutesInOrder ==
    (fn = "_get_shots_df" /\ pc = "returned") =>
        LET rows == ret.value.rows
        IN  \A j, k \in 1..Len(rows) :
               (j < k) => rows[j]["minute"] <= rows[k]["minute"]

----------------------------------------------------------------------------
(* The games normalizer applied to its own output *)

\* The step is the second call: the normalizer given the table it returned.
IsRefeed == fn = "_transform_games_data_df" /\ pc = "returned" /\ pc' # pc

\* C15: _transform_games_data_df applied to its own output, a table without
\* the columns h, a, goals, xG, forecast, raises an error and returns no
\* table, and the table it was given is after the call as it was before: no
\* column added, dropped or overwritten.
C15_RefeedFailsLeavingTable ==
    [][IsRefeed =>
          /\ Range(arg.columns) \cap NestedColumns = {}
          /\ pc' = "raised_again"
          /\ ret'.kind = "raise" /\ ret'.error = "KeyError"
          /\ arg' = arg]_vars

\* The output of a call on two records was fed again and refused.
C15_Witness ==
    /\ fn = "_transform_games_data_df" /\ pc = "raised_again"
    /\ Len(arg0) = 2
    /\ ret = Raise("KeyError", "h")
    /\ IsFlatFormOf(arg, arg0)

============================================================================
